---------------------------- MODULE Spec2Model ----------------------------
(***************************************************************************)
(* A model of src/compiler.py: the hand-written Scanner (a character-level *)
(* tokenizer), main's flattening of the per-line token lists, and the      *)
(* recursive-descent Parser with its insert-and-continue recovery.         *)
(*                                                                         *)
(* A lexeme is a sequence of one-character strings; a token is the pair    *)
(* <<kind, lexeme>> the scanner records (compiler.py:40).                  *)
(*                                                                         *)
(* Four specifications:                                                    *)
(*   Spec           Scanner.scan on a bounded text, then main's flattening *)
(*   ParserSpec     Parser(tokens).Program() on a bounded token list       *)
(*   RoundTripSpec  Spec, followed by a scan of the emitted lexemes        *)
(*   TruncateSpec   Spec, followed by a scan of the text before the        *)
(*                  comment the input left open                            *)
(***************************************************************************)
EXTENDS Integers, Sequences, FiniteSets, TLC

VARIABLES
    \* ---- Scanner (compiler.py:12-20) ----
    text,              \* self.text, a sequence of characters
    pos,               \* self.pos (0-based)
    lineno,            \* self.lineno
    tokens_per_line,   \* self.tokens_per_line: line number -> token list
    errors,            \* self.errors: <<line, lexeme, message>>
    symbol_table,      \* self.symbol_table
    symbol_table_set,  \* self.symbol_table_set
    emitted,           \* history: the tokens in the order scan() recorded them
    last,              \* what the latest next_token call returned
    phase,             \* main's position: "scan", "flatten", "parse", "idle"
    \* ---- Parser (compiler.py:324-327) ----
    tokens,            \* self.tokens
    parser_pos,        \* self.pos (0-based)
    parser_errors,     \* self.errors
    stack,             \* the pending steps of the active calls, innermost first
    tree,              \* the parse tree in preorder: <<depth, label, token>>
    pc                 \* "idle", "run", "done", "IndexError", "RecursionError"

scanner_vars == <<text, pos, lineno, tokens_per_line, errors, symbol_table,
                  symbol_table_set, emitted, last, phase>>
parser_vars == <<tokens, parser_pos, parser_errors, stack, tree, pc>>
vars == <<scanner_vars, parser_vars>>

----------------------------------------------------------------------------
(* Bounds *)

\* longest scanned text
MaxLen == 4
\* longest free token list handed to the parser (sentinel not counted)
MaxTokens == 2
\* longest free token list after the function opening  int x ( void ) {
MaxBody == 2
\* stand-in for the Python interpreter's recursion limit
MaxDepth == 60

----------------------------------------------------------------------------
(* Lexemes *)

kw_break == <<"b", "r", "e", "a", "k">>
kw_else == <<"e", "l", "s", "e">>
kw_if == <<"i", "f">>
kw_for == <<"f", "o", "r">>
kw_int == <<"i", "n", "t">>
kw_return == <<"r", "e", "t", "u", "r", "n">>
kw_void == <<"v", "o", "i", "d">>

KEYWORDS == <<kw_break, kw_else, kw_if, kw_for, kw_int, kw_return, kw_void>>

SYMBOLS == {";", ":", ",", "[", "]", "(", ")", "{", "}", "+", "-", "*", "/", "<", "="}

WHITESPACE_CHARS == {" ", "\t", "\r", "\\v", "\f", "\n"}

\* the lexeme of a one-character symbol
Sym(c) == <<c>>

EqEq == <<"=", "=">>

\* tokens, as the pairs (ttype, lexeme) of record_token
Kw(lex) == <<"KEYWORD", lex>>
Id(lex) == <<"ID", lex>>
Num(lex) == <<"NUM", lex>>
Sy(lex) == <<"SYMBOL", lex>>

\* tokens.append(("$", "$")) in main
EndOfInput == <<"$", <<"$">>>>

\* the lists over A of length at most n
SeqsUpTo(A, n) == UNION {[1..k -> A] : k \in 0..n}


----------------------------------------------------------------------------
(* Characters: Python's str predicates on the characters the model uses *)

\* the value Python's None stands for where a character is expected
None == "None"

LOWER == <<"a", "b", "c", "d", "e", "f", "g", "h", "i", "j", "k", "l", "m",
           "n", "o", "p", "q", "r", "s", "t", "u", "v", "w", "x", "y", "z">>

DIGITS == {"0", "1", "2", "3", "4", "5", "6", "7", "8", "9"}

\* a character for which str.isspace() holds and that is not in WHITESPACE_CHARS
\* (U+001C, the file separator)
FS == "\\x1c"

isalpha(c) == \E i \in DOMAIN LOWER : LOWER[i] = c
isdigit(c) == c \in DIGITS
isalnum(c) == isalpha(c) \/ isdigit(c)
isspace(c) == c \in WHITESPACE_CHARS \cup {FS}

\* the code point of a lower-case letter
ord(c) == 96 + (CHOOSE i \in DOMAIN LOWER : LOWER[i] = c)

\* Python's < on two strings of lower-case letters
RECURSIVE StrLess(_, _)
StrLess(a, b) ==
    IF b = <<>> THEN FALSE
    ELSE IF a = <<>> THEN TRUE
    ELSE IF Head(a) = Head(b) THEN StrLess(Tail(a), Tail(b))
    ELSE ord(Head(a)) < ord(Head(b))

\* one element put into its place in a sorted list
RECURSIVE Insert(_, _)
Insert(x, xs) ==
    IF xs = <<>> THEN <<x>>
    ELSE IF StrLess(x, Head(xs)) THEN <<x>> \o xs
    ELSE <<Head(xs)>> \o Insert(x, Tail(xs))

\* Python's sorted() on a list of strings
RECURSIVE sorted(_)
sorted(xs) == IF xs = <<>> THEN <<>> ELSE Insert(Head(xs), sorted(Tail(xs)))

\* the elements of a list, as set(list) gives them
Range(xs) == {xs[i] : i \in DOMAIN xs}

----------------------------------------------------------------------------
(* Scanner: the helpers. A cursor s is [pos, lineno, errors]; a method that *)
(* returns a lexeme gives [s, lex], one that returns a result gives         *)
(* [s, tag, tok] with tag one of "NONE", "COMMENT", "ERROR", "TOKEN".       *)

\* self.length, set by main to len(scanner.text)
length == Len(text)

Cursor == [errors |-> errors, lineno |-> lineno, pos |-> pos]

Result(s, tag, tok) == [s |-> s, tag |-> tag, tok |-> tok]

peek(s, offset) ==
    LET index == s.pos + offset
    IN IF index >= length THEN None ELSE text[index + 1]

\* advance that does not count the line feeds
advance_flat(s) ==
    IF s.pos >= length THEN s ELSE [s EXCEPT !.pos = @ + 1]

advance(s) ==
    IF s.pos >= length THEN s
    ELSE [s EXCEPT !.pos = @ + 1,
                   !.lineno = IF text[s.pos + 1] = "\n" THEN @ + 1 ELSE @]

\* record_error that puts the new entry first
record_error_first(s, lexeme, message, line) ==
    [s EXCEPT !.errors = <<<<line, lexeme, message>>>> \o @]

record_error(s, lexeme, message, line) ==
    [s EXCEPT !.errors = Append(@, <<line, lexeme, message>>)]

is_symbol(ch) == ch \in SYMBOLS

\* is_whitespace that knows the line feed only
is_whitespace_newline(ch) == ch = "\n"

is_whitespace(ch) == ch \in WHITESPACE_CHARS

RECURSIVE skip_whitespace(_)
skip_whitespace(s) ==
    LET c == peek(s, 0)
    IN IF c = None \/ c \notin WHITESPACE_CHARS THEN s
       ELSE skip_whitespace(advance(s))

----------------------------------------------------------------------------
(* Scanner: comments *)

RECURSIVE consume_line_comment(_)
consume_line_comment(s) ==
    LET ch == peek(s, 0)
    IN IF ch = None \/ ch = "\n" THEN Result(s, "COMMENT", <<>>)
       ELSE consume_line_comment(advance(s))

\* the number of comment characters an "Open comment at EOF" message shows
CommentPreview == 7

\* consume_block_comment that reports the line the input ends on
RECURSIVE consume_block_comment_last_line(_, _, _)
consume_block_comment_last_line(s, start_line, content) ==
    LET ch == peek(s, 0)
    IN IF ch = None
       THEN LET short == IF Len(content) > CommentPreview
                         THEN SubSeq(content, 1, CommentPreview) \o <<".", ".", ".">>
                         ELSE content
            IN Result(record_error(s, <<"/", "*", " ">> \o short,
                                   "Open comment at EOF", s.lineno),
                      "ERROR", <<>>)
       ELSE IF ch = "*" /\ peek(s, 1) = "/"
       THEN Result(advance(advance(s)), "COMMENT", <<>>)
       ELSE consume_block_comment_last_line(advance(s), start_line, Append(content, ch))

RECURSIVE consume_block_comment(_, _, _)
consume_block_comment(s, start_line, content) ==
    LET ch == peek(s, 0)
    IN IF ch = None
       THEN LET short == IF Len(content) > CommentPreview
                         THEN SubSeq(content, 1, CommentPreview) \o <<".", ".", ".">>
                         ELSE content
            IN Result(record_error(s, <<"/", "*", " ">> \o short,
                                   "Open comment at EOF", start_line),
                      "ERROR", <<>>)
       ELSE IF ch = "*" /\ peek(s, 1) = "/"
       THEN Result(advance(advance(s)), "COMMENT", <<>>)
       ELSE consume_block_comment(advance(s), start_line, Append(content, ch))

read_slash_sequence(s) ==
    LET start_line == s.lineno
        s1 == advance(s)
        nxt == peek(s1, 0)
    IN IF nxt = "/" THEN consume_line_comment(advance(s1))
       ELSE IF nxt = "*" THEN consume_block_comment(advance(s1), start_line, <<>>)
       ELSE Result(s1, "TOKEN", <<"SYMBOL", <<"/">>>>)

\* detect_stray_closing_comment that finds nothing
detect_stray_closing_comment_blind(s) == Result(s, "NONE", <<>>)

detect_stray_closing_comment(s) ==
    IF peek(s, 0) = "*" /\ peek(s, 1) = "/"
    THEN LET ln == s.lineno
             lex == <<peek(s, 0), peek(s, 1)>>
         IN Result(record_error(advance(advance(s)), lex, "Stray closing comment", ln),
                   "ERROR", <<>>)
    ELSE Result(s, "NONE", <<>>)

----------------------------------------------------------------------------
(* Scanner: identifiers *)

\* the loop of read_identifier_head
RECURSIVE identifier_run(_, _)
identifier_run(s, lex) ==
    LET c == peek(s, 0)
    IN IF c = None \/ ~(isalnum(c) \/ c = "_") THEN [lex |-> lex, s |-> s]
       ELSE identifier_run(advance(s), Append(lex, c))

\* lex is None (an empty list here: a found head is never empty) or the head
read_identifier_head(s) ==
    LET c == peek(s, 0)
    IN IF c = None \/ ~(isalpha(c) \/ c = "_") THEN [lex |-> <<>>, s |-> s]
       ELSE identifier_run(s, <<>>)

RECURSIVE read_illegal_continuation(_, _)
read_illegal_continuation(s, chunk) ==
    LET ch == peek(s, 0)
    IN IF ch = None \/ isspace(ch) \/ is_symbol(ch) THEN [lex |-> chunk, s |-> s]
       ELSE read_illegal_continuation(advance(s), Append(chunk, ch))

scan_identifier(s) ==
    LET start_line == s.lineno
        head == read_identifier_head(s)
        lex == head.lex
        nxt == peek(head.s, 0)
    IN IF lex = <<>> THEN Result(s, "NONE", <<>>)
       ELSE IF nxt # None /\ ~is_whitespace(nxt) /\ ~is_symbol(nxt)
       THEN LET illegal == read_illegal_continuation(head.s, <<>>)
            IN Result(record_error(illegal.s, lex \o illegal.lex,
                                   "Illegal character", start_line),
                      "ERROR", <<>>)
       ELSE IF lex \in Range(KEYWORDS) THEN Result(head.s, "TOKEN", <<"KEYWORD", lex>>)
       ELSE Result(head.s, "TOKEN", <<"ID", lex>>)

----------------------------------------------------------------------------
(* Scanner: numbers *)

RECURSIVE consume_number_head(_, _)
consume_number_head(s, lex) ==
    LET ch == peek(s, 0)
    IN IF ch = None \/ ~isdigit(ch) THEN [lex |-> lex, s |-> s]
       ELSE consume_number_head(advance(s), Append(lex, ch))

\* the loop of read_number over the run that follows the digits
RECURSIVE malformed_run(_, _)
malformed_run(s, lex) ==
    LET ch == peek(s, 0)
    IN IF ch = None \/ ~(isalnum(ch) \/ ch = "_") THEN [lex |-> lex, s |-> s]
       ELSE malformed_run(advance(s), Append(lex, ch))

\* read_number without the test for a leading zero
read_number_any_zero(s) ==
    LET c == peek(s, 0)
        start_line == s.lineno
        head == consume_number_head(s, <<>>)
        after == peek(head.s, 0)
    IN IF c = None \/ ~isdigit(c) THEN Result(s, "NONE", <<>>)
       ELSE IF after # None /\ (isalpha(after) \/ after = "_")
       THEN LET run == malformed_run(head.s, head.lex)
            IN Result(record_error(run.s, run.lex, "Malformed number", start_line),
                      "ERROR", <<>>)
       ELSE Result(head.s, "TOKEN", <<"NUM", head.lex>>)

read_number(s) ==
    LET c == peek(s, 0)
        start_line == s.lineno
        head == consume_number_head(s, <<>>)
        after == peek(head.s, 0)
    IN IF c = None \/ ~isdigit(c) THEN Result(s, "NONE", <<>>)
       ELSE IF after # None /\ (isalpha(after) \/ after = "_")
       THEN LET run == malformed_run(head.s, head.lex)
            IN Result(record_error(run.s, run.lex, "Malformed number", start_line),
                      "ERROR", <<>>)
       ELSE IF Len(head.lex) > 1 /\ head.lex[1] = "0"
       THEN Result(record_error(head.s, head.lex, "Malformed number", start_line),
                   "ERROR", <<>>)
       ELSE Result(head.s, "TOKEN", <<"NUM", head.lex>>)

----------------------------------------------------------------------------
(* Scanner: symbols and illegal characters *)

read_symbol(s) ==
    LET c == peek(s, 0)
    IN IF c = None THEN Result(s, "NONE", <<>>)
       ELSE IF c = "="
       THEN IF peek(advance(s), 0) = "="
            THEN Result(advance(advance(s)), "TOKEN", <<"SYMBOL", EqEq>>)
            ELSE Result(advance(s), "TOKEN", <<"SYMBOL", <<"=">>>>)
       ELSE IF c \in SYMBOLS THEN Result(advance(s), "TOKEN", <<"SYMBOL", <<c>>>>)
       ELSE Result(s, "NONE", <<>>)

\* read_illegal that records the character without consuming it
read_illegal_stuck(s) ==
    Result(record_error(s, <<peek(s, 0)>>, "Illegal character", s.lineno), "ERROR", <<>>)

read_illegal(s) ==
    LET ch == peek(s, 0)
        s1 == advance(s)
    IN IF ch # None
       THEN Result(record_error(s1, <<ch>>, "Illegal character", s1.lineno),
                   "ERROR", <<>>)
       ELSE Result(s1, "ERROR", <<>>)

----------------------------------------------------------------------------
(* Scanner: the tokenizer *)

\* tag "NONE" is Python's None: the end of the stream
next_token(s0) ==
    LET s == skip_whitespace(s0)
        c == peek(s, 0)
        stray == detect_stray_closing_comment(s)
        ident == scan_identifier(s)
        num == read_number(s)
        sym == read_symbol(s)
    IN IF c = None THEN Result(s, "NONE", <<>>)
       ELSE IF c = "/" THEN read_slash_sequence(s)
       ELSE IF stray.tag = "ERROR" THEN stray
       ELSE IF ident.tag # "NONE" THEN ident
       ELSE IF num.tag # "NONE" THEN num
       ELSE IF sym.tag # "NONE" THEN sym
       ELSE read_illegal(s)

\* record_token without the membership test on the symbol table
record_token_always(ln, ttype, lexeme) ==
    LET lines == IF ln \notin DOMAIN tokens_per_line
                 THEN tokens_per_line @@ (ln :> <<>>)
                 ELSE tokens_per_line
        new == ttype \in {"ID", "KEYWORD"}
    IN [symbol_table |-> IF new THEN Append(symbol_table, lexeme) ELSE symbol_table,
        symbol_table_set |-> IF new THEN symbol_table_set \cup {lexeme}
                             ELSE symbol_table_set,
        tokens_per_line |-> [lines EXCEPT ![ln] = Append(@, <<ttype, lexeme>>)]]

\* record_token without the test on the token type
record_token_every_kind(ln, ttype, lexeme) ==
    LET lines == IF ln \notin DOMAIN tokens_per_line
                 THEN tokens_per_line @@ (ln :> <<>>)
                 ELSE tokens_per_line
        new == lexeme \notin symbol_table_set
    IN [symbol_table |-> IF new THEN Append(symbol_table, lexeme) ELSE symbol_table,
        symbol_table_set |-> IF new THEN symbol_table_set \cup {lexeme}
                             ELSE symbol_table_set,
        tokens_per_line |-> [lines EXCEPT ![ln] = Append(@, <<ttype, lexeme>>)]]

\* the values of tokens_per_line, symbol_table and symbol_table_set after
\* record_token(ttype, lexeme) on line ln
record_token(ln, ttype, lexeme) ==
    LET lines == IF ln \notin DOMAIN tokens_per_line
                 THEN tokens_per_line @@ (ln :> <<>>)
                 ELSE tokens_per_line
        new == ttype \in {"ID", "KEYWORD"} /\ lexeme \notin symbol_table_set
    IN [symbol_table |-> IF new THEN Append(symbol_table, lexeme) ELSE symbol_table,
        symbol_table_set |-> IF new THEN symbol_table_set \cup {lexeme}
                             ELSE symbol_table_set,
        tokens_per_line |-> [lines EXCEPT ![ln] = Append(@, <<ttype, lexeme>>)]]

----------------------------------------------------------------------------
(* Scanner.scan, one action per way around its loop *)

\* tok is None: return
scan_return ==
    /\ phase = "scan"
    /\ LET r == next_token(Cursor)
       IN /\ r.tag = "NONE"
          /\ pos' = r.s.pos
          /\ lineno' = r.s.lineno
          /\ errors' = r.s.errors
          /\ last' = r.tag
    /\ phase' = "flatten"
    /\ UNCHANGED <<text, tokens_per_line, symbol_table, symbol_table_set, emitted>>
    /\ UNCHANGED parser_vars

\* tok in ("COMMENT", "ERROR"): continue
scan_continue ==
    /\ phase = "scan"
    /\ LET r == next_token(Cursor)
       IN /\ r.tag \in {"COMMENT", "ERROR"}
          /\ pos' = r.s.pos
          /\ lineno' = r.s.lineno
          /\ errors' = r.s.errors
          /\ last' = r.tag
    /\ UNCHANGED <<text, tokens_per_line, symbol_table, symbol_table_set, emitted, phase>>
    /\ UNCHANGED parser_vars

\* ttype, lex = tok; self.record_token(ttype, lex)
scan_record ==
    /\ phase = "scan"
    /\ LET r == next_token(Cursor)
       IN /\ r.tag = "TOKEN"
          /\ pos' = r.s.pos
          /\ lineno' = r.s.lineno
          /\ errors' = r.s.errors
          /\ last' = r.tag
          /\ LET rec == record_token(r.s.lineno, r.tok[1], r.tok[2])
             IN /\ tokens_per_line' = rec.tokens_per_line
                /\ symbol_table' = rec.symbol_table
                /\ symbol_table_set' = rec.symbol_table_set
          /\ emitted' = Append(emitted, r.tok)
    /\ UNCHANGED <<text, phase>>
    /\ UNCHANGED parser_vars

----------------------------------------------------------------------------
(* The token listing and main *)

\* the keys of a dict in descending order
RECURSIVE SortedKeys_desc(_)
SortedKeys_desc(keys) ==
    IF keys = {} THEN <<>>
    ELSE LET most == CHOOSE k \in keys : \A j \in keys : k >= j
         IN <<most>> \o SortedKeys_desc(keys \ {most})

\* the keys of a dict in ascending order: sorted(d.keys())
RECURSIVE SortedKeys(_)
SortedKeys(keys) ==
    IF keys = {} THEN <<>>
    ELSE LET least == CHOOSE k \in keys : \A j \in keys : k <= j
         IN <<least>> \o SortedKeys(keys \ {least})

\* the lines of tokens.txt: the line number and its tokens
write_tokens ==
    LET order == SortedKeys(DOMAIN tokens_per_line)
    IN [i \in DOMAIN order |-> <<order[i], tokens_per_line[order[i]]>>]

\* tokens.extend(...) over the lines ln1, ln2, ...
RECURSIVE Extend(_, _)
Extend(order, lines) ==
    IF order = <<>> THEN <<>>
    ELSE lines[Head(order)] \o Extend(Tail(order), lines)

\* main's flattening, with the sentinel appended
flatten == Extend(SortedKeys(DOMAIN tokens_per_line), tokens_per_line) \o <<EndOfInput>>

----------------------------------------------------------------------------
(* Parser: the machinery of a call *)

\* Parser.lookahead (0-based cursor into a 1-based sequence)
lookahead == tokens[parser_pos + 1]

\* whether self.tokens[self.pos] exists; outside it Python raises IndexError
InRange == parser_pos < Len(tokens)

\* Parser.advance
parser_advance == parser_pos + 1

\* the steps a function body is made of
\* (a step is <<op, name, lexeme, cursor>>: name is the function called or
\* returned from, or the token kind; cursor is where a returning call began)
Call(nt) == <<"call", nt, <<>>, 0>>
Match(lex) == <<"match", "", lex, 0>>
MatchType(kind) == <<"match_type", kind, <<>>, 0>>
Take(kind) == <<"take", kind, <<>>, 0>>
Eps == <<"epsilon", "", <<>>, 0>>
Dollar == <<"dollar", "", <<>>, 0>>
Ret(nt, at) == <<"ret", nt, <<>>, at>>

StepOp(it) == it[1]
StepName(it) == it[2]
StepLexeme(it) == it[3]
StepCursor(it) == it[4]

\* the calls that have not returned, innermost first
ActiveCalls == SelectSeq(stack, LAMBDA it : StepOp(it) = "ret")

\* the depth of the Python call stack below main
Depth == Len(ActiveCalls)

\* Node(name) / Node(f"({kind}, {lexeme})") in preorder position: a node is
\* <<depth, label, token>>, with label "leaf" for a token's node
Inner(name) == <<Depth, name, <<>>>>
Leaf(kind, lex) == <<Depth, "leaf", <<kind, lex>>>>

NodeDepth(n) == n[1]
NodeLabel(n) == n[2]
NodeToken(n) == n[3]

\* the characters of a token kind, as an f-string prints it
KindText(kind) ==
    CASE kind = "NUM" -> <<"N", "U", "M">>
      [] kind = "ID" -> <<"I", "D">>
      [] OTHER -> <<>>

\* f"syntax error, missing {expected}"
Missing(expected) == <<"syntax error, missing", expected>>

\* an uncaught exception: the parse stops where it is
Raise(e) ==
    /\ pc' = e
    /\ UNCHANGED <<tokens, parser_pos, parser_errors, stack, tree>>

\* control is at a call of nt
AtCall(nt) ==
    /\ pc = "run"
    /\ stack # <<>>
    /\ StepOp(Head(stack)) = "call"
    /\ StepName(Head(stack)) = nt

\* control is at a step of kind op
AtStep(op) ==
    /\ pc = "run"
    /\ stack # <<>>
    /\ StepOp(Head(stack)) = op

\* node = Node(nt), then the body, then return node
Enter(nt, body) ==
    /\ tree' = Append(tree, Inner(nt))
    /\ stack' = body \o <<Ret(nt, parser_pos)>> \o Tail(stack)
    /\ UNCHANGED <<tokens, parser_pos, parser_errors, pc>>

\* a call of a function that chooses its alternative without the lookahead
Plain(nt, body) ==
    /\ AtCall(nt)
    /\ IF Depth >= MaxDepth THEN Raise("RecursionError") ELSE Enter(nt, body)
    /\ UNCHANGED scanner_vars

\* a call of a function that reads the lookahead on entry
Predict(nt, body) ==
    /\ AtCall(nt)
    /\ IF Depth >= MaxDepth THEN Raise("RecursionError")
       ELSE IF ~InRange THEN Raise("IndexError")
       ELSE Enter(nt, body)
    /\ UNCHANGED scanner_vars

----------------------------------------------------------------------------
(* Parser: the primitives *)

\* match with panic-mode recovery: a mismatched lookahead is skipped
match_panic ==
    /\ AtStep("match")
    /\ IF ~InRange THEN Raise("IndexError")
       ELSE /\ LET expected == StepLexeme(Head(stack))
                   tok == lookahead
               IN IF tok[2] = expected
                  THEN /\ tree' = Append(tree, Leaf(tok[1], tok[2]))
                       /\ UNCHANGED parser_errors
                  ELSE /\ parser_errors' = Append(parser_errors, Missing(expected))
                       /\ tree' = Append(tree, Leaf("SYMBOL", expected))
            /\ parser_pos' = parser_advance
            /\ stack' = Tail(stack)
            /\ UNCHANGED <<tokens, pc>>
    /\ UNCHANGED scanner_vars

match ==
    /\ AtStep("match")
    /\ IF ~InRange THEN Raise("IndexError")
       ELSE /\ LET expected == StepLexeme(Head(stack))
                   tok == lookahead
               IN IF tok[2] = expected
                  THEN /\ tree' = Append(tree, Leaf(tok[1], tok[2]))
                       /\ parser_pos' = parser_advance
                       /\ UNCHANGED parser_errors
                  ELSE /\ parser_errors' = Append(parser_errors, Missing(expected))
                       /\ tree' = Append(tree, Leaf("SYMBOL", expected))
                       /\ UNCHANGED parser_pos
            /\ stack' = Tail(stack)
            /\ UNCHANGED <<tokens, pc>>
    /\ UNCHANGED scanner_vars

match_type ==
    /\ AtStep("match_type")
    /\ IF ~InRange THEN Raise("IndexError")
       ELSE /\ LET expected_type == StepName(Head(stack))
                   tok == lookahead
               IN IF tok[1] = expected_type
                  THEN /\ tree' = Append(tree, Leaf(tok[1], tok[2]))
                       /\ parser_pos' = parser_advance
                       /\ UNCHANGED parser_errors
                  ELSE /\ parser_errors' =
                             Append(parser_errors, Missing(KindText(expected_type)))
                       /\ tree' = Append(tree, Leaf(expected_type, <<>>))
                       /\ UNCHANGED parser_pos
            /\ stack' = Tail(stack)
            /\ UNCHANGED <<tokens, pc>>
    /\ UNCHANGED scanner_vars

\* tok = self.lookahead(); node.add(Node(f"({kind}, {tok[1]})")); self.advance()
take ==
    /\ AtStep("take")
    /\ IF ~InRange THEN Raise("IndexError")
       ELSE /\ tree' = Append(tree, Leaf(StepName(Head(stack)), lookahead[2]))
            /\ parser_pos' = parser_advance
            /\ stack' = Tail(stack)
            /\ UNCHANGED <<tokens, parser_errors, pc>>
    /\ UNCHANGED scanner_vars

\* node.add(self.epsilon())
epsilon ==
    /\ AtStep("epsilon")
    /\ tree' = Append(tree, Inner("epsilon"))
    /\ stack' = Tail(stack)
    /\ UNCHANGED <<tokens, parser_pos, parser_errors, pc>>
    /\ UNCHANGED scanner_vars

\* node.add(Node("$")) in Program
dollar ==
    /\ AtStep("dollar")
    /\ tree' = Append(tree, Inner("$"))
    /\ stack' = Tail(stack)
    /\ UNCHANGED <<tokens, parser_pos, parser_errors, pc>>
    /\ UNCHANGED scanner_vars

\* return node; the return of Program ends the parse
return ==
    /\ AtStep("ret")
    /\ stack' = Tail(stack)
    /\ pc' = IF Tail(stack) = <<>> THEN "done" ELSE "run"
    /\ UNCHANGED <<tokens, parser_pos, parser_errors, tree>>
    /\ UNCHANGED scanner_vars

----------------------------------------------------------------------------
(* Parser: the grammar, one action per function of class Parser *)

Program ==
    Plain("Program", <<Call("Declaration-list"), Dollar>>)

Declaration_list ==
    Predict("Declaration-list",
            IF lookahead[2] \in {kw_int, kw_void}
            THEN <<Call("Declaration"), Call("Declaration-list")>>
            ELSE <<Eps>>)

Declaration ==
    Plain("Declaration", <<Call("Declaration-initial"), Call("Declaration-prime")>>)

\* Declaration-initial taking the identifier before the type specifier
Declaration_initial_swapped ==
    Plain("Declaration-initial", <<Take("ID"), Call("Type-specifier")>>)

Declaration_initial ==
    Plain("Declaration-initial", <<Call("Type-specifier"), Take("ID")>>)

Declaration_prime ==
    Predict("Declaration-prime",
            IF lookahead[2] = Sym("(")
            THEN <<Call("Fun-declaration-prime")>>
            ELSE <<Call("Var-declaration-prime")>>)

Var_declaration_prime ==
    Predict("Var-declaration-prime",
            IF lookahead[2] = Sym("[")
            THEN <<Match(Sym("[")), MatchType("NUM"), Match(Sym("]")), Match(Sym(";"))>>
            ELSE <<Match(Sym(";"))>>)

Fun_declaration_prime ==
    Plain("Fun-declaration-prime",
          <<Match(Sym("(")), Call("Params"), Match(Sym(")")), Call("Compound-stmt")>>)

Type_specifier ==
    Predict("Type-specifier", <<Take("KEYWORD")>>)

Params ==
    Predict("Params",
            IF lookahead[2] = kw_void
            THEN <<Match(kw_void)>>
            ELSE <<Match(kw_int), Take("ID"), Call("Param-prime"), Call("Param-list")>>)

Param_list ==
    Predict("Param-list",
            IF lookahead[2] = Sym(",")
            THEN <<Match(Sym(",")), Call("Param"), Call("Param-list")>>
            ELSE <<Eps>>)

Param ==
    Plain("Param", <<Call("Declaration-initial"), Call("Param-prime")>>)

Param_prime ==
    Predict("Param-prime",
            IF lookahead[2] = Sym("[")
            THEN <<Match(Sym("[")), Match(Sym("]"))>>
            ELSE <<Eps>>)

\* Compound-stmt without its Statement-list
Compound_stmt_no_statements ==
    Plain("Compound-stmt",
          <<Match(Sym("{")), Call("Declaration-list"), Match(Sym("}"))>>)

Compound_stmt ==
    Plain("Compound-stmt",
          <<Match(Sym("{")), Call("Declaration-list"), Call("Statement-list"),
            Match(Sym("}"))>>)

Statement_list ==
    Predict("Statement-list",
            IF \/ lookahead[1] \in {"ID", "NUM"}
               \/ lookahead[2] \in {Sym("("), Sym(";"), Sym("{"), kw_if, kw_for,
                                    kw_return, kw_break}
            THEN <<Call("Statement"), Call("Statement-list")>>
            ELSE <<Eps>>)

Statement ==
    Predict("Statement",
            LET la == lookahead[2]
            IN IF la = Sym("{") THEN <<Call("Compound-stmt")>>
               ELSE IF la = kw_if THEN <<Call("Selection-stmt")>>
               ELSE IF la = kw_for THEN <<Call("Iteration-stmt")>>
               ELSE IF la = kw_return THEN <<Call("Return-stmt")>>
               ELSE <<Call("Expression-stmt")>>)

Selection_stmt ==
    Plain("Selection-stmt",
          <<Match(kw_if), Match(Sym("(")), Call("Expression"), Match(Sym(")")),
            Call("Statement"), Call("Else-stmt")>>)

Else_stmt ==
    Predict("Else-stmt",
            IF lookahead[2] = kw_else
            THEN <<Match(kw_else), Call("Statement")>>
            ELSE <<Eps>>)

Iteration_stmt ==
    Plain("Iteration-stmt",
          <<Match(kw_for), Match(Sym("(")), Call("Expression"), Match(Sym(";")),
            Call("Expression"), Match(Sym(";")), Call("Expression"), Match(Sym(")")),
            Call("Compound-stmt")>>)

Return_stmt ==
    Plain("Return-stmt", <<Match(kw_return), Call("Return-stmt-prime")>>)

Return_stmt_prime ==
    Predict("Return-stmt-prime",
            IF lookahead[2] = Sym(";")
            THEN <<Match(Sym(";"))>>
            ELSE <<Call("Expression"), Match(Sym(";"))>>)

Expression_stmt ==
    Predict("Expression-stmt",
            IF lookahead[2] = kw_break THEN <<Match(kw_break), Match(Sym(";"))>>
            ELSE IF lookahead[2] = Sym(";") THEN <<Match(Sym(";"))>>
            ELSE <<Call("Expression"), Match(Sym(";"))>>)

\* Expression that takes the generic family on every lookahead
Expression_generic ==
    Predict("Expression", <<Call("Simple-expression-zegond")>>)

Expression ==
    Predict("Expression",
            IF lookahead[1] = "ID"
            THEN <<Take("ID"), Call("B")>>
            ELSE <<Call("Simple-expression-zegond")>>)

B ==
    Predict("B",
            IF lookahead[2] = Sym("=") THEN <<Match(Sym("=")), Call("Expression")>>
            ELSE IF lookahead[2] = Sym("[")
            THEN <<Match(Sym("[")), Call("Expression"), Match(Sym("]")), Call("H")>>
            ELSE <<Call("Simple-expression-prime")>>)

H ==
    Predict("H",
            IF lookahead[2] = Sym("=")
            THEN <<Match(Sym("=")), Call("Expression")>>
            ELSE <<Call("G"), Call("D"), Call("C")>>)

Simple_expression_prime ==
    Plain("Simple-expression-prime", <<Call("Additive-expression-prime"), Call("C")>>)

Simple_expression_zegond ==
    Plain("Simple-expression-zegond", <<Call("Additive-expression-zegond"), Call("C")>>)

Relop ==
    Predict("Relop", <<Match(lookahead[2])>>)

C ==
    Predict("C",
            IF lookahead[2] \in {Sym("<"), EqEq}
            THEN <<Call("Relop"), Call("Additive-expression")>>
            ELSE <<Eps>>)

Additive_expression ==
    Plain("Additive-expression", <<Call("Term"), Call("D")>>)

Additive_expression_prime ==
    Plain("Additive-expression-prime", <<Call("Term-prime"), Call("D")>>)

Additive_expression_zegond ==
    Plain("Additive-expression-zegond", <<Call("Term-zegond"), Call("D")>>)

D ==
    Predict("D",
            IF lookahead[2] \in {Sym("+"), Sym("-")}
            THEN <<Call("Addop"), Call("Term"), Call("D")>>
            ELSE <<Eps>>)

Addop ==
    Predict("Addop", <<Match(lookahead[2])>>)

Term ==
    Plain("Term", <<Call("Signed-factor"), Call("G")>>)

Signed_factor ==
    Predict("Signed-factor",
            IF lookahead[2] \in {Sym("+"), Sym("-")}
            THEN <<Match(lookahead[2]), Call("Factor")>>
            ELSE <<Call("Factor")>>)

Factor ==
    Predict("Factor",
            IF lookahead[2] = Sym("(")
            THEN <<Match(Sym("(")), Call("Expression"), Match(Sym(")"))>>
            ELSE IF lookahead[1] = "ID" THEN <<Take("ID"), Call("Var-call-prime")>>
            ELSE <<MatchType("NUM")>>)

Term_prime ==
    Plain("Term-prime", <<Call("Factor-prime"), Call("G")>>)

Term_zegond ==
    Plain("Term-zegond", <<Call("Signed-factor-zegond"), Call("G")>>)

\* G that re-invokes itself without reading the operator and its operand
G_in_place ==
    Predict("G",
            IF lookahead[2] \in {Sym("*"), Sym("/")}
            THEN <<Call("G")>>
            ELSE <<Eps>>)

G ==
    Predict("G",
            IF lookahead[2] \in {Sym("*"), Sym("/")}
            THEN <<Match(lookahead[2]), Call("Signed-factor"), Call("G")>>
            ELSE <<Eps>>)

Factor_prime ==
    Predict("Factor-prime",
            IF lookahead[2] = Sym("(")
            THEN <<Match(Sym("(")), Call("Args"), Match(Sym(")"))>>
            ELSE <<Eps>>)

Signed_factor_zegond ==
    Plain("Signed-factor-zegond", <<Call("Factor-zegond")>>)

Factor_zegond ==
    Predict("Factor-zegond",
            IF lookahead[1] = "NUM"
            THEN <<Take("NUM")>>
            ELSE <<Match(Sym("(")), Call("Expression"), Match(Sym(")"))>>)

Var_prime ==
    Predict("Var-prime",
            IF lookahead[2] = Sym("[")
            THEN <<Match(Sym("[")), Call("Expression"), Match(Sym("]"))>>
            ELSE <<Eps>>)

Var_call_prime ==
    Predict("Var-call-prime",
            IF lookahead[2] = Sym("(")
            THEN <<Match(Sym("(")), Call("Args"), Match(Sym(")"))>>
            ELSE <<Call("Var-prime")>>)

Args ==
    Predict("Args",
            IF lookahead[2] = Sym(")") THEN <<Eps>> ELSE <<Call("Arg-list")>>)

Arg_list ==
    Plain("Arg-list", <<Call("Expression"), Call("Arg-list-prime")>>)

Arg_list_prime ==
    Predict("Arg-list-prime",
            IF lookahead[2] = Sym(",")
            THEN <<Match(Sym(",")), Call("Expression"), Call("Arg-list-prime")>>
            ELSE <<Eps>>)

----------------------------------------------------------------------------
(* Parser: the token lists it is run on *)

\* int a [ 0 ] ; void f ( int a [ ] , int b ) { int c ; return ; }
Example_decls ==
    <<
       Kw(kw_int), Id(<<"a">>), Sy(<<"[">>), Num(<<"0">>), Sy(<<"]">>),
       Sy(<<";">>), Kw(kw_void), Id(<<"f">>), Sy(<<"(">>), Kw(kw_int), Id(<<"a">>),
       Sy(<<"[">>), Sy(<<"]">>), Sy(<<",">>), Kw(kw_int), Id(<<"b">>), Sy(<<")">>),
       Sy(<<"{">>), Kw(kw_int), Id(<<"c">>), Sy(<<";">>), Kw(kw_return),
       Sy(<<";">>), Sy(<<"}">>), EndOfInput
    >>

\* int f ( void ) { if ( a [ 0 ] < b ) c = b + - f ( a , b ) * 0 ; else { break ; } }
Example_if ==
    <<
       Kw(kw_int), Id(<<"f">>), Sy(<<"(">>), Kw(kw_void), Sy(<<")">>), Sy(<<"{">>),
       Kw(kw_if), Sy(<<"(">>), Id(<<"a">>), Sy(<<"[">>), Num(<<"0">>), Sy(<<"]">>),
       Sy(<<"<">>), Id(<<"b">>), Sy(<<")">>), Id(<<"c">>), Sy(<<"=">>),
       Id(<<"b">>), Sy(<<"+">>), Sy(<<"-">>), Id(<<"f">>), Sy(<<"(">>),
       Id(<<"a">>), Sy(<<",">>), Id(<<"b">>), Sy(<<")">>), Sy(<<"*">>),
       Num(<<"0">>), Sy(<<";">>), Kw(kw_else), Sy(<<"{">>), Kw(kw_break),
       Sy(<<";">>), Sy(<<"}">>), Sy(<<"}">>), EndOfInput
    >>

\* int f ( void ) { for ( c = 0 ; c == 0 ; c = c + 0 ) { ; } }
Example_for ==
    <<
       Kw(kw_int), Id(<<"f">>), Sy(<<"(">>), Kw(kw_void), Sy(<<")">>), Sy(<<"{">>),
       Kw(kw_for), Sy(<<"(">>), Id(<<"c">>), Sy(<<"=">>), Num(<<"0">>),
       Sy(<<";">>), Id(<<"c">>), Sy(<<"=", "=">>), Num(<<"0">>), Sy(<<";">>),
       Id(<<"c">>), Sy(<<"=">>), Id(<<"c">>), Sy(<<"+">>), Num(<<"0">>),
       Sy(<<")">>), Sy(<<"{">>), Sy(<<";">>), Sy(<<"}">>), Sy(<<"}">>), EndOfInput
    >>

\* int f ( void ) { a [ 0 ] = 0 ; f ( ) ; ( 0 ) ; a [ 0 ] * b [ 0 ] ; }
Example_expr ==
    <<
       Kw(kw_int), Id(<<"f">>), Sy(<<"(">>), Kw(kw_void), Sy(<<")">>), Sy(<<"{">>),
       Id(<<"a">>), Sy(<<"[">>), Num(<<"0">>), Sy(<<"]">>), Sy(<<"=">>),
       Num(<<"0">>), Sy(<<";">>), Id(<<"f">>), Sy(<<"(">>), Sy(<<")">>),
       Sy(<<";">>), Sy(<<"(">>), Num(<<"0">>), Sy(<<")">>), Sy(<<";">>),
       Id(<<"a">>), Sy(<<"[">>), Num(<<"0">>), Sy(<<"]">>), Sy(<<"*">>),
       Id(<<"b">>), Sy(<<"[">>), Num(<<"0">>), Sy(<<"]">>), Sy(<<";">>),
       Sy(<<"}">>), EndOfInput
    >>

\* int main ( void ) { return 0 ; }
Example_main ==
    <<
       Kw(kw_int), Id(<<"m", "a", "i", "n">>), Sy(<<"(">>), Kw(kw_void),
       Sy(<<")">>), Sy(<<"{">>), Kw(kw_return), Num(<<"0">>), Sy(<<";">>),
       Sy(<<"}">>), EndOfInput
    >>

\* int x ( int a { return a ; }
Example_missing_paren ==
    <<
       Kw(kw_int), Id(<<"x">>), Sy(<<"(">>), Kw(kw_int), Id(<<"a">>), Sy(<<"{">>),
       Kw(kw_return), Id(<<"a">>), Sy(<<";">>), Sy(<<"}">>), EndOfInput
    >>

\* a [ 1
Example_open_index ==
    <<
       Id(<<"a">>), Sy(<<"[">>), Num(<<"1">>), EndOfInput
    >>

\* int x ( void ) { x = - 1 ; }
Example_signed ==
    <<
       Kw(kw_int), Id(<<"x">>), Sy(<<"(">>), Kw(kw_void), Sy(<<")">>), Sy(<<"{">>),
       Id(<<"x">>), Sy(<<"=">>), Sy(<<"-">>), Num(<<"1">>), Sy(<<";">>),
       Sy(<<"}">>), EndOfInput
    >>

\* every kind of token the scanner emits
TokenAlphabet ==
    {Kw(KEYWORDS[i]) : i \in DOMAIN KEYWORDS}
        \cup {Sy(Sym(c)) : c \in SYMBOLS}
        \cup {Sy(EqEq), Id(<<"x">>), Num(<<"0">>)}

\* int x ( void ) {
FunctionOpening ==
    <<Kw(kw_int), Id(<<"x">>), Sy(Sym("(")), Kw(kw_void), Sy(Sym(")")), Sy(Sym("{"))>>

ParserInputs ==
    {s \o <<EndOfInput>> : s \in SeqsUpTo(TokenAlphabet, MaxTokens)}
        \cup {FunctionOpening \o s \o <<EndOfInput>> : s \in SeqsUpTo(TokenAlphabet, MaxBody)}
        \cup {Example_decls, Example_if, Example_for, Example_expr, Example_main,
              Example_missing_paren, Example_open_index, Example_signed}

----------------------------------------------------------------------------
(* Construction *)

\* Scanner.__init__
Scanner_init ==
    /\ pos = 0
    /\ lineno = 1
    /\ tokens_per_line = <<>>
    /\ errors = <<>>
    /\ symbol_table = sorted(KEYWORDS)
    /\ symbol_table_set = Range(symbol_table)
    /\ emitted = <<>>
    /\ last = "NONE"

\* Parser.__init__, and main about to call parser.Program()
Parser_init(toks) ==
    [parser_errors |-> <<>>, parser_pos |-> 0, pc |-> "run",
     stack |-> <<Call("Program")>>, tokens |-> toks, tree |-> <<>>]

\* no Parser yet
ParserIdle ==
    /\ tokens = <<>>
    /\ parser_pos = 0
    /\ parser_errors = <<>>
    /\ stack = <<>>
    /\ tree = <<>>
    /\ pc = "idle"

----------------------------------------------------------------------------
(* Spec: main up to the construction of the Parser *)

\* the characters texts are made of: the letters of the keyword if, a digit,
\* the symbols the scanner treats specially, white space, an illegal character
\* and a space that is not in WHITESPACE_CHARS
TextAlphabet == {"i", "f", "0", "/", "*", "=", " ", "\n", "#", FS}

\* if if\nfi if fi
Text_keywords ==
    <<"i", "f", " ", "i", "f", "\n", "f", "i", " ", "i", "f", " ", "f", "i">>

\* i0/*0123456789
Text_open_comment ==
    <<"i", "0", "/", "*", "0", "1", "2", "3", "4", "5", "6", "7", "8", "9">>

\* f\n\n1 i/*\n*/f==_f;
Text_lines ==
    <<"f", "\n", "\n", "1", " ", "i", "/", "*", "\n", "*", "/", "f", "=", "=", "_",
      "f", ";">>

\* 007 0 12a3 10
Text_numbers ==
    <<"0", "0", "7", " ", "0", " ", "1", "2", "a", "3", " ", "1", "0">>

\* if(i0==10)fi=0/f;
Text_mixed ==
    <<"i", "f", "(", "i", "0", "=", "=", "1", "0", ")", "f", "i", "=", "0", "/",
      "f", ";">>

\* 1_0 00_ 0#
Text_underscore ==
    <<"1", "_", "0", " ", "0", "0", "_", " ", "0", "#">>

\* f\ni/* 0\n* /
Text_open_lines ==
    <<"f", "\n", "i", "/", "*", " ", "0", "\n", "*", " ", "/">>

\* #\n0i */\n/*\n#
Text_errors ==
    <<"#", "\n", "0", "i", " ", "*", "/", "\n", "/", "*", "\n", "#">>

Texts ==
    SeqsUpTo(TextAlphabet, MaxLen)
        \cup {Text_keywords, Text_open_comment, Text_lines, Text_numbers, Text_mixed,
              Text_underscore, Text_open_lines, Text_errors}

\* scanner = Scanner(); scanner.text = f.read(); scanner.length = len(scanner.text)
Init ==
    /\ Scanner_init
    /\ text \in Texts
    /\ phase = "scan"
    /\ ParserIdle

\* main, lines 816-823: flatten the listing, append the sentinel, build the Parser
main ==
    /\ phase = "flatten"
    /\ LET p == Parser_init(flatten)
       IN /\ tokens' = p.tokens
          /\ parser_pos' = p.parser_pos
          /\ parser_errors' = p.parser_errors
          /\ stack' = p.stack
          /\ tree' = p.tree
          /\ pc' = p.pc
    /\ phase' = "parse"
    /\ UNCHANGED <<text, pos, lineno, tokens_per_line, errors, symbol_table,
                   symbol_table_set, emitted, last>>

Next == scan_return \/ scan_continue \/ scan_record \/ main

Spec == Init /\ [][Next]_vars

----------------------------------------------------------------------------
(* ParserSpec: Parser(tokens).Program() on a token list of its own *)

ParserInit ==
    /\ Scanner_init
    /\ text = <<>>
    /\ phase = "parse"
    /\ \E toks \in ParserInputs :
          LET p == Parser_init(toks)
          IN /\ tokens = p.tokens
             /\ parser_pos = p.parser_pos
             /\ parser_errors = p.parser_errors
             /\ stack = p.stack
             /\ tree = p.tree
             /\ pc = p.pc

ParserNext ==
    \/ match \/ match_type \/ take \/ epsilon \/ dollar \/ return
    \/ Program \/ Declaration_list \/ Declaration \/ Declaration_initial
    \/ Declaration_prime \/ Var_declaration_prime \/ Fun_declaration_prime
    \/ Type_specifier \/ Params \/ Param_list \/ Param \/ Param_prime
    \/ Compound_stmt \/ Statement_list \/ Statement \/ Selection_stmt
    \/ Else_stmt \/ Iteration_stmt \/ Return_stmt \/ Return_stmt_prime
    \/ Expression_stmt \/ Expression \/ B \/ H \/ Simple_expression_prime
    \/ Simple_expression_zegond \/ Relop \/ C \/ Additive_expression
    \/ Additive_expression_prime \/ Additive_expression_zegond \/ D \/ Addop
    \/ Term \/ Signed_factor \/ Factor \/ Term_prime \/ Term_zegond \/ G
    \/ Factor_prime \/ Signed_factor_zegond \/ Factor_zegond \/ Var_prime
    \/ Var_call_prime \/ Args \/ Arg_list \/ Arg_list_prime

ParserSpec == ParserInit /\ [][ParserNext]_vars

----------------------------------------------------------------------------
(* RoundTripSpec: main's scan, then a scan of the lexemes that scan emitted,  *)
(* written out with one space between them                                    *)

\* " ".join(lexeme for (kind, lexeme) in toks)
RECURSIVE JoinLexemes(_)
JoinLexemes(toks) ==
    IF toks = <<>> THEN <<>>
    ELSE IF Len(toks) = 1 THEN toks[1][2]
    ELSE toks[1][2] \o <<" ">> \o JoinLexemes(Tail(toks))

\* the tokens handed to the parser, without the sentinel
HandedOver == SubSeq(tokens, 1, Len(tokens) - 1)

\* a fresh Scanner() whose text is the lexemes of the previous scan; tokens
\* keeps what the previous scan handed over
rescan ==
    /\ phase = "parse"
    /\ text' = JoinLexemes(HandedOver)
    /\ pos' = 0
    /\ lineno' = 1
    /\ tokens_per_line' = <<>>
    /\ errors' = <<>>
    /\ symbol_table' = sorted(KEYWORDS)
    /\ symbol_table_set' = Range(sorted(KEYWORDS))
    /\ emitted' = <<>>
    /\ last' = "NONE"
    /\ phase' = "scan"
    /\ UNCHANGED parser_vars

RoundTripNext == scan_return \/ scan_continue \/ scan_record \/ main \/ rescan

RoundTripSpec == Init /\ [][RoundTripNext]_vars

----------------------------------------------------------------------------
(* TruncateSpec: main's scan and, when it ended in an open comment, a scan of *)
(* the text before that comment                                                *)

\* where the last next_token call of scan() that read a character began to
\* read its token (0-based), s being the cursor scan() is at
RECURSIVE LastTokenStart(_)
LastTokenStart(s) ==
    LET r == next_token(s)
    IN IF r.tag = "NONE" \/ r.s.pos >= length THEN skip_whitespace(s).pos
       ELSE LastTokenStart(r.s)

\* a fresh Scanner() whose text is the text up to the comment left open; tokens
\* keeps what the previous scan handed over
rescan_without_comment ==
    /\ phase = "parse"
    /\ errors # <<>>
    /\ errors[Len(errors)][3] = "Open comment at EOF"
    /\ text' = SubSeq(text, 1, LastTokenStart([errors |-> <<>>, lineno |-> 1, pos |-> 0]))
    /\ pos' = 0
    /\ lineno' = 1
    /\ tokens_per_line' = <<>>
    /\ errors' = <<>>
    /\ symbol_table' = sorted(KEYWORDS)
    /\ symbol_table_set' = Range(sorted(KEYWORDS))
    /\ emitted' = <<>>
    /\ last' = "NONE"
    /\ phase' = "scan"
    /\ UNCHANGED parser_vars

TruncateNext ==
    scan_return \/ scan_continue \/ scan_record \/ main \/ rescan_without_comment

TruncateSpec == Init /\ [][TruncateNext]_vars

----------------------------------------------------------------------------
(* Properties of the parser, checked under ParserSpec *)

\* the index of the sentinel in self.tokens (0-based, as the cursor)
SentinelIndex == Len(tokens) - 1

\* tree[k] lies in the subtree rooted at tree[i]
InSubtree(i, k) ==
    /\ i < k
    /\ \A m \in (i + 1)..k : NodeDepth(tree[m]) > NodeDepth(tree[i])

\* tree[k] is a child of tree[i]
IsChild(i, k) == InSubtree(i, k) /\ NodeDepth(tree[k]) = NodeDepth(tree[i]) + 1

\* C1: the parse has no abort path: Parser.lookahead is never evaluated with
\* the cursor beyond the sentinel's index (Python's IndexError).
C1_NoAbort == pc # "IndexError"

\* no function is active twice from the same cursor position
NoReentry ==
    \A i, j \in DOMAIN ActiveCalls :
        i < j => ~(/\ StepName(ActiveCalls[i]) = StepName(ActiveCalls[j])
                   /\ StepCursor(ActiveCalls[i]) = StepCursor(ActiveCalls[j]))

\* C2: Parser.Program terminates: no nonterminal is re-entered on a lookahead
\* it never consumes, and the descent never runs into the recursion limit.
C2_Terminates == NoReentry /\ pc # "RecursionError"

\* C3: whenever Parser.Program returns, the cursor is at the end-of-input
\* sentinel: every token before it has been consumed.
C3_EndsAtSentinel == pc = "done" => parser_pos = SentinelIndex

\* C4: match(expected) and match_type(expectedKind): on a lookahead that is the
\* expected one the cursor advances by exactly one and the error list is
\* unchanged; otherwise the cursor is unchanged and exactly the message
\* 'syntax error, missing <expected>' is appended. The tokens never change.
C4_MatchFrame ==
    [][(/\ pc = "run"
        /\ stack # <<>>
        /\ StepOp(Head(stack)) \in {"match", "match_type"}
        /\ InRange)
       => LET byLexeme == StepOp(Head(stack)) = "match"
              hit == IF byLexeme THEN lookahead[2] = StepLexeme(Head(stack))
                     ELSE lookahead[1] = StepName(Head(stack))
              expected == IF byLexeme THEN StepLexeme(Head(stack))
                          ELSE KindText(StepName(Head(stack)))
          IN /\ tokens' = tokens
             /\ IF hit
                THEN /\ parser_pos' = parser_pos + 1
                     /\ parser_errors' = parser_errors
                ELSE /\ parser_pos' = parser_pos
                     /\ parser_errors' = Append(parser_errors, Missing(expected))]_vars

\* C4's case: a match has consumed a token, and a match and a match_type have
\* each recorded a missing token
C4_Witness ==
    /\ parser_pos >= 1
    /\ \E i \in DOMAIN parser_errors : parser_errors[i] = Missing(KindText("NUM"))
    /\ \E i \in DOMAIN parser_errors : parser_errors[i] = Missing(Sym(";"))

\* C5: parsing  a [ 1  records one or more 'syntax error, missing ...' messages
\* and ends at the end-of-input sentinel.
C5_OpenIndex ==
    (tokens = Example_open_index /\ pc = "done")
        => (Len(parser_errors) >= 1 /\ parser_pos = SentinelIndex)

\* the tree holds a Compound-stmt with a Return-stmt below it
HasReturnInCompound ==
    \E i, k \in DOMAIN tree :
        /\ NodeLabel(tree[i]) = "Compound-stmt"
        /\ NodeLabel(tree[k]) = "Return-stmt"
        /\ InSubtree(i, k)

\* C6: parsing  int x ( int a { return a ; }  never aborts and ends with exactly
\* one syntax error, 'syntax error, missing )', a tree that holds the
\* function's Compound-stmt with a Return-stmt, and the cursor at the sentinel.
C6_MissingParen ==
    tokens = Example_missing_paren
        => /\ pc \in {"run", "done"}
           /\ NoReentry
           /\ pc = "done"
                => /\ parser_errors = <<Missing(Sym(")"))>>
                   /\ HasReturnInCompound
                   /\ parser_pos = SentinelIndex

\* C6's case: that parse has returned
C6_Witness == tokens = Example_missing_paren /\ pc = "done"

\* C7: parsing  int main ( void ) { return 0 ; }  never aborts and ends with no
\* syntax error, the cursor at the sentinel, and a tree rooted at Program whose
\* first child is Declaration-list, whose first grandchild is the
\* Declaration-initial holding the leaf of the consumed identifier main.
C7_Main ==
    tokens = Example_main
        => /\ pc \in {"run", "done"}
           /\ NoReentry
           /\ pc = "done"
                => /\ parser_errors = <<>>
                   /\ parser_pos = SentinelIndex
                   /\ NodeLabel(tree[1]) = "Program" /\ NodeDepth(tree[1]) = 0
                   /\ NodeLabel(tree[2]) = "Declaration-list" /\ IsChild(1, 2)
                   /\ IsChild(2, 3)
                   /\ NodeLabel(tree[4]) = "Declaration-initial" /\ IsChild(3, 4)
                   /\ \E k \in DOMAIN tree :
                         /\ IsChild(4, k)
                         /\ NodeLabel(tree[k]) = "leaf"
                         /\ NodeToken(tree[k]) = Id(<<"m", "a", "i", "n">>)

\* C7's case: that parse has returned
C7_Witness == tokens = Example_main /\ pc = "done"

----------------------------------------------------------------------------
(* Properties of the scanner, checked under Spec *)

\* C8: every next_token call that does not signal the end of the stream
\* strictly increases the scanner cursor, and when scan has returned the
\* cursor equals the input length.
C8_ScannerProgress ==
    /\ [][(phase = "scan" /\ phase' = "scan") => pos' > pos]_vars
    /\ [](phase # "scan" => pos = length)

\* C8's case: a scan that met a lexical error, a comment-free token and the end
C8_Witness == phase = "parse" /\ errors # <<>> /\ emitted # <<>> /\ pos = length

\* a list without a repeated element
NoRepeat(xs) == \A i, j \in DOMAIN xs : i # j => xs[i] # xs[j]

\* the elements of a list in the order of their first occurrence
RECURSIVE FirstOccurrences(_)
FirstOccurrences(xs) ==
    IF xs = <<>> THEN <<>>
    ELSE LET front == FirstOccurrences(SubSeq(xs, 1, Len(xs) - 1))
             x == xs[Len(xs)]
         IN IF x \in Range(front) THEN front ELSE Append(front, x)

\* the lexemes of the Identifier tokens emitted so far
EmittedIdentifiers ==
    LET ids == SelectSeq(emitted, LAMBDA t : t[1] = "ID")
    IN [i \in DOMAIN ids |-> ids[i][2]]

\* C9: the symbol table never repeats an entry, starts with the 7 reserved
\* words in lexicographic order, and continues with exactly the distinct
\* Identifier lexemes emitted so far, in the order of their first emission.
C9_SymbolTable ==
    /\ NoRepeat(symbol_table)
    /\ Len(symbol_table) >= Len(KEYWORDS)
    /\ SubSeq(symbol_table, 1, Len(KEYWORDS))
         = <<kw_break, kw_else, kw_for, kw_if, kw_int, kw_return, kw_void>>
    /\ SubSeq(symbol_table, Len(KEYWORDS) + 1, Len(symbol_table))
         = FirstOccurrences(EmittedIdentifiers)

\* C9's case: a keyword and an identifier have each been emitted twice
C9_Witness ==
    /\ \E i, j \in DOMAIN emitted : i < j /\ emitted[i] = emitted[j] /\ emitted[i][1] = "KEYWORD"
    /\ \E i, j \in DOMAIN emitted : i < j /\ emitted[i] = emitted[j] /\ emitted[i][1] = "ID"

\* the tokens of the listing, line after line
RECURSIVE ListingTokens(_)
ListingTokens(listing) ==
    IF listing = <<>> THEN <<>>
    ELSE Head(listing)[2] \o ListingTokens(Tail(listing))

\* C10: the per-line token lists concatenated in ascending line order (the
\* token listing, and the list handed to the parser before the sentinel) are
\* the tokens in the order the scanner emitted them, each exactly once.
C10_ListingIsEmitted ==
    /\ ListingTokens(write_tokens) = emitted
    /\ phase = "parse" => tokens = emitted \o <<EndOfInput>>

\* C10's case: tokens on two lines, one of them with two tokens, handed over
C10_Witness ==
    /\ phase = "parse"
    /\ Cardinality(DOMAIN tokens_per_line) >= 2
    /\ \E ln \in DOMAIN tokens_per_line : Len(tokens_per_line[ln]) >= 2

\* C11: round trip: scanning the emitted lexemes, separated by one space,
\* gives the same (kind, lexeme) tokens in the same order and no lexical
\* error. (pc is "idle" only during the first scan; at phase "flatten" of a
\* later scan, tokens still holds what the scan before it handed over.)
C11_RoundTrip ==
    (phase = "flatten" /\ pc # "idle")
        => /\ emitted \o <<EndOfInput>> = tokens
           /\ errors = <<>>

\* C11 happens: a re-scan has ended on a listing with a keyword, an identifier,
\* a number and a symbol
C11_Witness ==
    /\ phase = "flatten"
    /\ pc # "idle"
    /\ \A kind \in {"KEYWORD", "ID", "NUM", "SYMBOL"} :
          \E i \in DOMAIN emitted : emitted[i][1] = kind

\* where the next token starts: the first position from the cursor on that
\* holds no WHITESPACE_CHARS character (0-based; length at the end of input)
TokenStart ==
    CHOOSE k \in pos..length :
        /\ \A j \in (pos + 1)..k : text[j] \in WHITESPACE_CHARS
        /\ k < length => text[k + 1] \notin WHITESPACE_CHARS

\* the character the next token starts with
StartChar == IF TokenStart < length THEN text[TokenStart + 1] ELSE None

\* the end of the longest run from position from + 1 whose characters are in
\* chars (1-based, inclusive; from if the run is empty)
RunEnd(from, chars) ==
    CHOOSE e \in from..length :
        /\ \A j \in (from + 1)..e : text[j] \in chars
        /\ e < length => text[e + 1] \notin chars

\* the characters of an identifier's tail, among those texts are made of
WordChars == Range(LOWER) \cup DIGITS \cup {"_"}

\* errors' is errors with one more entry, (some line, lexeme, message)
OneMoreError(lexeme, message) ==
    /\ Len(errors') = Len(errors) + 1
    /\ SubSeq(errors', 1, Len(errors)) = errors
    /\ errors'[Len(errors')][2] = lexeme
    /\ errors'[Len(errors')][3] = message

\* C12: a token that starts with a digit: the maximal digit run followed by a
\* letter or underscore is one "Malformed number" error on the run plus the
\* alphanumeric/underscore run after it and no token; otherwise a run of two
\* or more digits that starts with 0 is one "Malformed number" error on the
\* run and no token; otherwise it is one NUM token and no error. In every case
\* the cursor ends behind the lexeme.
C12_ReadNumber ==
    [][(phase = "scan" /\ StartChar \in DIGITS)
       => LET digitsEnd == RunEnd(TokenStart, DIGITS)
              digits == SubSeq(text, TokenStart + 1, digitsEnd)
              after == IF digitsEnd < length THEN text[digitsEnd + 1] ELSE None
              wordEnd == RunEnd(digitsEnd, WordChars)
          IN IF after # None /\ (after \in Range(LOWER) \/ after = "_")
             THEN /\ OneMoreError(SubSeq(text, TokenStart + 1, wordEnd),
                                  "Malformed number")
                  /\ emitted' = emitted
                  /\ pos' = wordEnd
             ELSE IF Len(digits) > 1 /\ digits[1] = "0"
             THEN /\ OneMoreError(digits, "Malformed number")
                  /\ emitted' = emitted
                  /\ pos' = digitsEnd
             ELSE /\ emitted' = Append(emitted, Num(digits))
                  /\ errors' = errors
                  /\ pos' = digitsEnd]_vars

\* C12 happens: 007 and 12a3 have been reported, 0 and 10 emitted
C12_Witness ==
    /\ phase = "flatten"
    /\ \E i, j \in DOMAIN errors :
          /\ errors[i] = <<1, <<"0", "0", "7">>, "Malformed number">>
          /\ errors[j] = <<1, <<"1", "2", "a", "3">>, "Malformed number">>
    /\ emitted = <<Num(<<"0">>), Num(<<"1", "0">>)>>

\* the line a 0-based position lies on
LineOf(p) == 1 + Cardinality({j \in 1..p : text[j] = "\n"})

\* a block comment opens at the next token start and no */ closes it
OpensForGood ==
    /\ StartChar = "/"
    /\ TokenStart + 1 < length
    /\ text[TokenStart + 2] = "*"
    /\ \A j \in (TokenStart + 3)..(length - 1) : ~(text[j] = "*" /\ text[j + 1] = "/")

OpenCommentErrors ==
    {i \in DOMAIN errors : errors[i][3] = "Open comment at EOF"}

\* C13: when the scanner opens a block comment (a token starts at /*) that no
\* */ closes before the input ends, that step records one "Open comment at
\* EOF" error on the line where the /* began, emits no token and ends at the
\* end of the input; a scan never records two such errors; and the scan of the
\* text before the /* emits the same tokens as were emitted before it.
C13_OpenComment ==
    /\ [][(phase = "scan" /\ OpensForGood)
          => /\ OneMoreError(errors'[Len(errors')][2], "Open comment at EOF")
             /\ errors'[Len(errors')][1] = LineOf(TokenStart)
             /\ emitted' = emitted
             /\ tokens_per_line' = tokens_per_line
             /\ pos' = length]_vars
    /\ [](Cardinality(OpenCommentErrors) <= 1)
    /\ []((phase = "flatten" /\ pc # "idle") => emitted \o <<EndOfInput>> = tokens)

\* C13 happens: two tokens, then a comment opened on line 2 that runs over the
\* line break to the end of the input
C13_Witness ==
    /\ phase = "flatten"
    /\ text = Text_open_lines
    /\ lineno = 3
    /\ emitted = <<Id(<<"f">>), Id(<<"i">>)>>
    /\ Len(errors) = 1
    /\ errors[1][1] = 2
    /\ errors[1][3] = "Open comment at EOF"

\* C14: a token that starts at * with / right behind it: both characters are
\* consumed, one "Stray closing comment" error with lexeme */ is recorded on
\* the line of the *, and no token is emitted.
C14_StrayClosingComment ==
    [][(/\ phase = "scan"
        /\ StartChar = "*"
        /\ TokenStart + 1 < length
        /\ text[TokenStart + 2] = "/")
       => /\ errors' = Append(errors, <<LineOf(TokenStart), <<"*", "/">>,
                                        "Stray closing comment">>)
          /\ pos' = TokenStart + 2
          /\ emitted' = emitted
          /\ tokens_per_line' = tokens_per_line]_vars

\* C14 happens: a token, then */ on the second line
C14_Witness ==
    /\ phase = "flatten"
    /\ emitted # <<>>
    /\ errors = <<<<2, <<"*", "/">>, "Stray closing comment">>>>

\* the characters of the text that are neither whitespace (the six characters
\* of WHITESPACE_CHARS) nor symbols
IllegalRunChars == Range(text) \ (WHITESPACE_CHARS \cup SYMBOLS)

\* C15: a token that starts with a letter or underscore and whose letter/
\* digit/underscore run is followed by a character that is neither whitespace
\* nor a symbol: the step consumes the maximal run of such characters behind
\* the identifier, records one "Illegal character" error on the identifier plus
\* that run, emits no token and leaves the cursor behind the run.
C15_IllegalContinuation ==
    [][(/\ phase = "scan"
        /\ StartChar \in Range(LOWER) \cup {"_"}
        /\ RunEnd(TokenStart, WordChars) < length
        /\ text[RunEnd(TokenStart, WordChars) + 1] \in IllegalRunChars)
       => LET runEnd == RunEnd(RunEnd(TokenStart, WordChars), IllegalRunChars)
          IN /\ OneMoreError(SubSeq(text, TokenStart + 1, runEnd), "Illegal character")
             /\ emitted' = emitted
             /\ pos' = runEnd]_vars

\* C20: the listing and the symbol table change only when a token is emitted:
\* a next_token call that results in a comment or a lexical error leaves the
\* per-line token lists and the symbol table as they were, so does every step
\* that emits nothing, and a step that emits a NUM or SYMBOL token leaves the
\* symbol table as it was.
C20_EmissionFrame ==
    [][/\ ((phase = "scan" /\ last' \in {"COMMENT", "ERROR"}) \/ emitted' = emitted)
          => /\ tokens_per_line' = tokens_per_line
             /\ symbol_table' = symbol_table
             /\ symbol_table_set' = symbol_table_set
       /\ (/\ Len(emitted') = Len(emitted) + 1
           /\ emitted'[Len(emitted')][1] \in {"NUM", "SYMBOL"})
          => /\ symbol_table' = symbol_table
             /\ symbol_table_set' = symbol_table_set]_vars

\* C20 happens: an identifier, a symbol and a number were emitted and a lexical
\* error recorded; the identifier alone was added to the symbol table
C20_Witness ==
    /\ phase = "flatten"
    /\ errors # <<>>
    /\ \A kind \in {"ID", "NUM", "SYMBOL"} :
          \E i \in DOMAIN emitted : emitted[i][1] = kind
    /\ Len(symbol_table) = Len(KEYWORDS) + 1

\* C21: in every state the line counter is 1 plus the number of line feeds
\* among the characters consumed so far, and a step that emits a token records
\* it, in the per-line token lists, under the line on which the token's first
\* character lies (and touches no other line's list).
C21_LineCounter ==
    /\ [](lineno = LineOf(pos))
    /\ [][(phase = "scan" /\ emitted' # emitted)
          => LET ln == LineOf(TokenStart)
                 tok == emitted'[Len(emitted')]
                 before == IF ln \in DOMAIN tokens_per_line
                           THEN tokens_per_line[ln] ELSE <<>>
             IN /\ emitted' = Append(emitted, tok)
                /\ DOMAIN tokens_per_line' = DOMAIN tokens_per_line \cup {ln}
                /\ tokens_per_line'[ln] = Append(before, tok)
                /\ \A k \in DOMAIN tokens_per_line :
                      k # ln => tokens_per_line'[k] = tokens_per_line[k]]_vars

\* C21 happens: tokens were recorded on lines 1, 3 and 4, the last ones behind
\* a comment that runs over a line break
C21_Witness ==
    /\ phase = "flatten"
    /\ text = Text_lines
    /\ DOMAIN tokens_per_line = {1, 3, 4}
    /\ lineno = 4

\* C22: in every state the lexical errors are in non-decreasing order of line
\* number, and a step only ever appends to the error list: the errors recorded
\* before stay as they are, in their places.
C22_ErrorOrder ==
    /\ [](\A i, j \in DOMAIN errors : i < j => errors[i][1] <= errors[j][1])
    /\ [][/\ Len(errors') >= Len(errors)
          /\ SubSeq(errors', 1, Len(errors)) = errors]_vars

\* C22 happens: errors on lines 1 and 2, then a comment opened on line 3 and
\* left open on line 4, reported on line 3
C22_Witness ==
    /\ phase = "flatten"
    /\ Len(errors) = 4
    /\ errors[1][1] = 1
    /\ errors[3][1] = 2
    /\ errors[4][1] = 3
    /\ errors[4][3] = "Open comment at EOF"
    /\ lineno = 4

----------------------------------------------------------------------------
(* Further properties of the parser, checked under ParserSpec *)

\* a call of Signed-factor-zegond that began on a + or - and has not returned,
\* with the cursor still where the call began
SignPending ==
    \E i \in DOMAIN ActiveCalls :
        /\ StepName(ActiveCalls[i]) = "Signed-factor-zegond"
        /\ StepCursor(ActiveCalls[i]) = parser_pos
        /\ InRange
        /\ lookahead[2] \in {Sym("+"), Sym("-")}

\* C16: Signed-factor-zegond entered on a + or - consumes the sign before
\* anything else happens: while such a call has not moved the cursor, no step
\* records a syntax error, and the parse of  int x ( void ) { x = - 1 ; }
\* never has a syntax error nor runs out of stack.
C16_SignConsumed ==
    /\ [][SignPending => parser_errors' = parser_errors]_vars
    /\ [](tokens = Example_signed => parser_errors = <<>> /\ pc # "RecursionError")

\* C17: every step that advances the cursor adds one leaf, labelled with the
\* kind and the lexeme of the token it consumed (so a leaf (ID, x) or
\* (KEYWORD, x) stands for a consumed token of that kind, and no token of
\* another kind than the expected one is consumed).
C17_LeafIsConsumedToken ==
    [][parser_pos' # parser_pos
       => /\ parser_pos' = parser_pos + 1
          /\ Len(tree') = Len(tree) + 1
          /\ NodeLabel(tree'[Len(tree')]) = "leaf"
          /\ NodeToken(tree'[Len(tree')]) = lookahead]_vars

\* the nonterminals whose non-epsilon alternative ends in a call of themselves
ListNonterminals ==
    {"Statement-list", "Declaration-list", "Param-list", "D", "G", "Arg-list-prime"}

\* control is at the call by which the list nonterminal nt re-invokes itself:
\* the call is the last step of nt's own body
ReInvokes(nt) ==
    /\ Len(stack) >= 2
    /\ stack[1] = Call(nt)
    /\ StepOp(stack[2]) = "ret"
    /\ StepName(stack[2]) = nt

\* C18: when a list nonterminal re-invokes itself, the cursor is strictly
\* beyond where the invocation that makes the call began; for Statement-list
\* this says that the Statement it invoked consumed at least one token.
C18_ListProgress ==
    \A nt \in ListNonterminals :
        ReInvokes(nt) => parser_pos > StepCursor(stack[2])

\* C18 happens: in the if example a Statement has returned and Statement-list
\* is about to re-invoke itself, after D, G and Arg-list-prime did so
C18_Witness ==
    /\ tokens = Example_if
    /\ ReInvokes("Statement-list")
    /\ \A nt \in {"D", "G", "Arg-list-prime"} :
          Cardinality({i \in DOMAIN tree : NodeLabel(tree[i]) = nt}) >= 2

\* C19: whenever Factor-zegond is invoked there is a lookahead and its kind is
\* not ID, on every parse path.
C19_FactorZegondLookahead ==
    AtCall("Factor-zegond") => InRange /\ lookahead[1] # "ID"

\* C19 happens: Factor-zegond is invoked on a number after a syntax error has
\* been recovered from
C19_Witness ==
    /\ AtCall("Factor-zegond")
    /\ parser_errors # <<>>
    /\ lookahead[1] = "NUM"

============================================================================
